---- MODULE Spec2Model ----
(***************************************************************************)
(* A model of itty-durable-safe: the actor runtime created by              *)
(* createDurable (src/src/itty-durable.js) and the client proxy            *)
(* proxyDurable (src/src/proxy-durable.js).                                *)
(*                                                                         *)
(* The modelled actor is a subclass of IttyDurable whose constructor sets  *)
(* count = 0 and the transient $tmp = 1, and which has one method of its   *)
(* own, increment(), doing this.count += 1 and returning nothing.          *)
(*                                                                         *)
(* The store adapter is asynchronous: put() issues a write that is applied *)
(* later, unless the caller waits for the pending value put() returns.     *)
(* list() and deleteAll() are awaited by the code and act at the call.     *)
(***************************************************************************)
EXTENDS Integers, Sequences, FiniteSets, TLC

\* ------------------------------------------------------------ bounds

\* a request that would take count above MaxCount, or that would add 1 to a
\* count that is not a number, is not sent
MaxCount == 1

\* a request is delivered when at most MaxInflight writes are in flight
MaxInflight == 0

\* ------------------------------------------------------------ values

Num(n) == [t |-> "number", n |-> n]
NaN == [t |-> "NaN", n |-> 0]
Null == [t |-> "null", n |-> 0]
Undefined == [t |-> "undefined", n |-> 0]
\* the env argument of the constructor
EnvObj == [t |-> "object", n |-> 0]
\* the argument list of a call: Args(0) is [], Args(1) is [{reset: true}]
Args(n) == [t |-> "args", n |-> n]
\* a function-valued member, as a value
Function == [t |-> "function", n |-> 0]

EmptyObj == [k \in {} |-> Null]

\* Object.assign(target, source)
Assign(target, source) ==
    [k \in DOMAIN target \cup DOMAIN source |->
        IF k \in DOMAIN source THEN source[k] ELSE target[k]]

Restrict(o, S) == [k \in S \cap DOMAIN o |-> o[k]]

\* ------------------------------------------------------------ codecs

\* what JSON.stringify writes for a value inside a text: NaN becomes null
JSONValue(v) == IF v = NaN THEN Null ELSE v

\* JSON.stringify(v): undefined and functions give undefined, not a text
JSONstringify(v) ==
    IF v \in {Undefined, Function} THEN Undefined
    ELSE [t |-> "json", v |-> JSONValue(v)]

\* JSON.stringify(object): undefined and function members are left out
JSONstringifyObject(o) ==
    [t |-> "json",
     o |-> [k \in {x \in DOMAIN o : o[x] \notin {Undefined, Function}} |->
               JSONValue(o[k])]]

\* a text is valid JSON when it was written by JSON.stringify
IsJSON(text) == text.t = "json"

\* JSON.parse of a valid text holding a value
JSONparse(text) == text.v

\* JSON.parse of a valid text holding an object
JSONparseObject(text) == text.o

\* the header value a Headers object holds for a given JS value: a string is
\* kept, undefined is converted to the text "undefined" (not valid JSON)
HeaderText(x) == IF x = Undefined THEN [t |-> "text", v |-> Undefined] ELSE x

\* superjson.stringify(v): the JSON image plus the meta that restores it
superjsonStringify(v) ==
    [t |-> "superjson", json |-> JSONValue(v),
     meta |-> IF v = NaN THEN "number" ELSE "none"]

\* superjson.parse(text)
superjsonParse(text) == IF text.meta = "number" THEN NaN ELSE text.json

\* ------------------------------------------------------------ options

\* createDurable's option prefix
prefix == "_itty:"

\* the limit of storage.list in loadFromStorage
ListLimit == 100

\* the key of a persisted field: `${prefix}${propertyName}`
Key(propertyName) == [prefix |-> prefix, name |-> propertyName]

\* key.startsWith(prefix) ? key.slice(prefix.length) : key
truncatedKey(key) == IF key.prefix = prefix THEN key.name ELSE key

\* propertyName.startsWith('$'), over the names of the model
StartsWithDollar(propertyName) == propertyName \in {"$tmp"}

VARIABLES
    autoPersist,    \* option autoPersist of createDurable
    autoReturn,     \* option autoReturn of createDurable
    this,           \* the own properties of the in-memory instance, "state" included
    storage,        \* the durable store: key -> superjson text
    inflight,       \* put() writes issued and not yet applied
    txn,            \* the transaction view handed to safeAlarm's closure
    alarm,          \* where safeAlarm's closure stands: "idle", "load", "cb"
    last            \* the request answered last, and how

vars == <<autoPersist, autoReturn, this, storage, inflight, txn,
          alarm, last>>

\* ------------------------------------------------------------ the instance

\* the two store references this.state.storage can hold: the store adapter
\* the platform hands to the constructor, and a transaction view of it
StorageRef == [t |-> "storage", n |-> 0]
TxnRef == [t |-> "txn", n |-> 0]

\* what the constructor and the subclass's constructor leave on the instance:
\* this.env, this.state, and count = 0 and $tmp = 1 from the subclass
\* (this.classInstance = null is a second member like this.env, with a value
\* that never changes, and is not carried)
Construct ==
    [k \in {"env", "count", "$tmp", "state"} |->
        CASE k = "env" -> EnvObj
          [] k = "count" -> Num(0)
          [] k = "$tmp" -> Num(1)
          [] k = "state" -> [defaultState |-> Undefined,
                             initialized |-> FALSE,
                             storage |-> StorageRef]]

\* the members found on the prototype chain of the instance
Methods ==
    {"destroy", "getAlarm", "setAlarm", "safeAlarm", "fetch", "getPersistable",
     "loadFromStorage", "onDestroy", "onLoad", "optionallyReturnThis", "persist",
     "reset", "toJSON", "increment"}

\* this[prop]: an own property, else a method, else undefined
Member(t, prop) ==
    IF prop \in DOMAIN t THEN t[prop]
    ELSE IF prop \in Methods THEN Function ELSE Undefined

\* whether this.state still is an object that takes and gives properties
IsObject(s) == IF "t" \in DOMAIN s THEN s.t \notin {"number", "null", "NaN"} ELSE TRUE

\* this.state.<name>, undefined when the property is not there
StateGet(t, name) ==
    IF name \in DOMAIN t["state"] THEN t["state"][name] ELSE Undefined

\* this.state.<name> = v
StateSet(t, name, v) ==
    [t EXCEPT !["state"] =
        [k \in DOMAIN t["state"] \cup {name} |->
            IF k = name THEN v ELSE t["state"][k]]]

\* !this.state.initialized
NotInitialized(t) ==
    IF "initialized" \in DOMAIN t["state"] THEN ~t["state"].initialized ELSE TRUE

\* const { state, ...persistable } = this
getPersistable(t) == Restrict(t, DOMAIN t \ {"state"})

\* const { state, ...other } = this
toJSON(t) == Restrict(t, DOMAIN t \ {"state"})

\* a machine: the instance and the store it works on
Machine == [this |-> this, storage |-> storage, inflight |-> inflight, txn |-> txn]

\* the entries storage.list({prefix, limit}) gives on the store reference ref;
\* the transaction view shows the store with the transaction's own writes
listed(m, ref) ==
    LET view == IF ref = TxnRef THEN Assign(m.storage, m.txn.writes) ELSE m.storage
        keys == {key \in DOMAIN view : key.prefix = prefix}
    IN IF Cardinality(keys) <= ListLimit
       THEN Restrict(view, keys)
       ELSE Restrict(view, CHOOSE S \in SUBSET keys : Cardinality(S) = ListLimit)

\* whether an operation on the store reference fails: the reference is gone
\* with the namespace, or it is a transaction view that has ended
RefFails(m, ref) ==
    \/ ref \notin {StorageRef, TxnRef}
    \/ ref = TxnRef /\ ~m.txn.open

\* loadFromStorage(): fault "list" makes storage.list fail, fault "onLoad"
\* makes the onLoad hook throw
loadFromStorage(m, fault) ==
    LET ref == StateGet(m.this, "storage") IN
    IF ~NotInitialized(m.this) THEN [m |-> m, threw |-> FALSE]
    ELSE IF fault = "list" \/ RefFails(m, ref) THEN [m |-> m, threw |-> TRUE]
    ELSE LET stored == listed(m, ref)
             stateObj == [name \in {truncatedKey(key) : key \in DOMAIN stored} |->
                             superjsonParse(stored[Key(name)])]
             assigned == Assign(m.this, stateObj)
         IN IF fault = "onLoad"
            THEN [m |-> [m EXCEPT !.this = assigned], threw |-> TRUE]
            ELSE [m |-> [m EXCEPT !.this = StateSet(assigned, "initialized", TRUE)],
                  threw |-> FALSE]

\* the writes persist() hands to storage.put
persistWrites(t) ==
    {[key |-> Key(propertyName),
      value |-> superjsonStringify(t[propertyName])] :
        propertyName \in {p \in DOMAIN getPersistable(t) : ~StartsWithDollar(p)}}

\* a persist that makes the store mirror the instance: the keys of fields the
\* instance no longer holds are removed before the puts are issued
persistMirroring(m, fault) ==
    [m |-> [m EXCEPT !.storage =
                        Restrict(@, DOMAIN @ \cap {w.key : w \in persistWrites(m.this)}),
                     !.inflight = @ \cup persistWrites(m.this)],
     threw |-> FALSE]

\* persist(): every put is issued and none is waited for; fault "put" makes
\* storage.put throw at the call
persist(m, fault) ==
    LET ref == StateGet(m.this, "storage")
        writes == persistWrites(m.this)
    IN IF writes = {} THEN [m |-> m, threw |-> FALSE]
       ELSE IF fault = "put" \/ ref \notin {StorageRef, TxnRef}
       THEN [m |-> m, threw |-> TRUE]
       ELSE IF ref = StorageRef
       THEN [m |-> [m EXCEPT !.inflight = @ \cup writes], threw |-> FALSE]
       ELSE IF m.txn.open
       THEN [m |-> [m EXCEPT !.txn.writes =
                       Assign(@, [key \in {w.key : w \in writes} |->
                                     (CHOOSE w \in writes : w.key = key).value])],
             threw |-> FALSE]
       ELSE [m |-> m, threw |-> FALSE]

\* reset(): every field is deleted, then the default state is parsed and
\* assigned; JSON.parse(undefined) throws after the deletion
reset(t) ==
    LET defaultState == StateGet(t, "defaultState")
        deleted == Restrict(t, {"state"})
    IN IF defaultState = Undefined
       THEN [this |-> deleted, threw |-> TRUE]
       ELSE [this |-> Assign(deleted, JSONparseObject(defaultState)), threw |-> FALSE]

\* destroy(options): deleteAll is awaited; reset() is not; onDestroy returns
\* nothing. A transaction view has no deleteAll.
destroy(m, options) ==
    IF StateGet(m.this, "storage") # StorageRef
    THEN [m |-> m, threw |-> TRUE]
    ELSE [m |-> [m EXCEPT !.storage = EmptyObj,
                          !.this = IF options = Args(1) THEN reset(@).this ELSE @],
          threw |-> FALSE]

\* ------------------------------------------------------------ responses

EmptyBody == [t |-> "empty"]

\* no response: the router matched no route
NoResponse == [status |-> 0, body |-> EmptyBody]

\* json(value): new Response(JSON.stringify(value)); nothing to write gives an
\* empty body
json(v) ==
    [status |-> 200,
     body |-> IF JSONstringify(v) = Undefined THEN EmptyBody ELSE JSONstringify(v)]

\* json(object)
jsonObject(o) == [status |-> 200, body |-> JSONstringifyObject(o)]

\* status(204)
status204 == [status |-> 204, body |-> EmptyBody]

\* an error's message; the target is kept apart where the message names it
Message(text, target) == [text |-> text, target |-> target]

\* onError: error(err.status || 500, err.message), body {status, error: message}
onError(errStatus, message) ==
    [status |-> errStatus, body |-> [t |-> "json", error |-> message]]

\* error(400, e) with e an Error object, which has no enumerable member: the
\* body is an object without an error member
error400 == [status |-> 400, body |-> [t |-> "json", o |-> EmptyObj]]

\* what the subclass's fetchFallback returns when it returns a response
FallbackResponse == [status |-> 200, body |-> [t |-> "json", v |-> Null]]

\* ------------------------------------------------------------ the router

\* a check that the member is there, whatever it is
IsFunctionDefined(t, target) == Member(t, target) # Undefined

\* typeof this[target] === 'function'
IsFunction(t, target) == Member(t, target) = Function

\* the subclass's increment(): this.count += 1
increment(t) ==
    LET count == Member(t, "count")
        sum == CASE count.t = "number" -> Num(count.n + 1)
                 [] count.t = "null" -> Num(1)
                 [] OTHER -> NaN
    IN Assign(t, [k \in {"count"} |-> sum])

\* proxied[target](...content) for the methods a call reaches; result is what
\* the method returns (Undefined: nothing), persists the persist() calls made
Invoke(m, target, content, fault) ==
    CASE target = "increment" ->
            [m |-> [m EXCEPT !.this = increment(@)], threw |-> FALSE,
             result |-> Undefined, persists |-> 0]
      [] target = "persist" ->
            LET p == persist(m, fault)
            IN [m |-> p.m, threw |-> p.threw, result |-> Undefined, persists |-> 1]
      [] target = "reset" ->
            LET r == reset(m.this)
            IN [m |-> [m EXCEPT !.this = r.this], threw |-> r.threw,
                result |-> Undefined, persists |-> 0]
      [] target = "destroy" ->
            LET d == destroy(m, content)
            IN [m |-> d.m, threw |-> d.threw, result |-> Undefined, persists |-> 0]
      [] target = "toJSON" ->
            [m |-> m, threw |-> FALSE, result |-> toJSON(m.this), persists |-> 0]
      [] OTHER ->
            [m |-> m, threw |-> FALSE, result |-> Undefined, persists |-> 0]

\* optionallyReturnThis, then () => status(204)
optionallyReturnThis(t) ==
    IF autoReturn THEN jsonObject(toJSON(t)) ELSE status204

\* router.handle(request).catch(onError) for the one route /do/:action/:target
routerHandle(m, req, fault) ==
    LET text == IF req.content.t = "absent" THEN JSONstringify(Args(0)) ELSE req.content
        content == JSONparse(text)
        thrown(mm, message, n) ==
            [m |-> mm, response |-> onError(500, message), persists |-> n]
    IN
    IF req.route # "do" THEN [m |-> m, response |-> NoResponse, persists |-> 0]
    ELSE IF ~IsJSON(text) THEN thrown(m, Message("SyntaxError", ""), 0)
    ELSE IF req.action = "call" THEN
        IF ~IsFunction(m.this, req.target)
        THEN thrown(m, Message("Durable Object does not contain method", req.target), 0)
        ELSE LET r == Invoke(m, req.target, content, fault) IN
             IF r.threw THEN thrown(r.m, Message("Error", ""), r.persists)
             ELSE IF r.result # Undefined
             THEN [m |-> r.m, response |-> jsonObject(r.result), persists |-> r.persists]
             ELSE [m |-> r.m, response |-> optionallyReturnThis(r.m.this),
                   persists |-> r.persists]
    ELSE IF req.action = "set" THEN
        LET t2 == Assign(m.this, [k \in {req.target} |-> content])
        IN [m |-> [m EXCEPT !.this = t2], response |-> optionallyReturnThis(t2),
            persists |-> 0]
    ELSE IF req.action = "get-prop" THEN
        [m |-> m, response |-> json(Member(m.this, req.target)), persists |-> 0]
    ELSE [m |-> m, response |-> optionallyReturnThis(m.this), persists |-> 0]

\* ------------------------------------------------------------ fetch

\* fetch's "save default state for reset": the snapshot is taken whenever the
\* instance is not initialized
saveDefaultState(t) ==
    IF NotInitialized(t)
    THEN StateSet(t, "defaultState", JSONstringifyObject(getPersistable(t)))
    ELSE t

\* a persist that does not ask for the option
autoPersistStepAlways(m, fault) == persist(m, fault)

\* fetch's "if (autoPersist) await this.persist()"
autoPersistStep(m, fault) ==
    IF autoPersist THEN persist(m, fault) ELSE [m |-> m, threw |-> FALSE]

\* fetch's use of the subclass's fetchFallback: return this.fetchFallback();
\* what it throws is caught, what it returns is returned as it is, a pending
\* value that rejects included
fetchFallbackStep(m, fallback) ==
    CASE fallback = "returns" ->
            [m |-> m, response |-> FallbackResponse, escaped |-> FALSE]
      [] fallback = "throws" ->
            [m |-> m, response |-> error400, escaped |-> FALSE]
      [] OTHER ->
            [m |-> m, response |-> NoResponse, escaped |-> TRUE]

\* fetch(request): escaped says that the pending value fetch returned rejects;
\* fallback is "absent" when the subclass defines no fetchFallback, and else
\* what this invocation of it does; persists counts the persist() calls
fetch(m, req, fault, fallback) ==
    LET caught(mm, n) ==
            [m |-> mm, response |-> error400, escaped |-> FALSE, persists |-> n]
    IN
    IF ~IsObject(m.this["state"]) THEN caught(m, 0)
    ELSE
    LET ld == loadFromStorage([m EXCEPT !.this = saveDefaultState(@)], fault) IN
    IF ld.threw THEN caught(ld.m, 0)
    ELSE
    LET rt == routerHandle(ld.m, req, fault) IN
    IF rt.response = NoResponse /\ fallback # "absent"
    THEN LET fb == fetchFallbackStep(rt.m, fallback)
         IN [m |-> fb.m, response |-> fb.response, escaped |-> fb.escaped,
             persists |-> rt.persists]
    ELSE
    LET ps == autoPersistStep(rt.m, fault)
        n == rt.persists + (IF autoPersist THEN 1 ELSE 0)
    IN
    IF ps.threw THEN caught(ps.m, n)
    ELSE IF rt.response # NoResponse
    THEN [m |-> ps.m, response |-> rt.response, escaped |-> FALSE, persists |-> n]
    ELSE caught(ps.m, n)

\* ------------------------------------------------------------ the proxy

\* isValidMethod(prop): mock is whether options.class was given, and then
\* typeof mock[prop] === 'function' asks a fresh instance of the class
isValidMethod(prop, mock) == prop # "fetch" /\ (~mock \/ prop \in Methods)

\* buildRequest(type, prop, content): the content travels in header do-content
buildRequest(type, prop, content) ==
    [route |-> "do", action |-> type, target |-> prop,
     content |-> HeaderText(JSONstringify(content))]

\* response.ok || response.status === 101
passes(response) == response.status \in 200..299 \/ response.status = 101

\* what JSON decoding gives for a body
Decoded(body) == Restrict(body, DOMAIN body \ {"t"})

\* catchErrors: a response that passes is handed on; otherwise the body is
\* read as JSON and StatusError(response.status, body?.error || body) is thrown
catchErrors(response) ==
    IF passes(response)
    THEN [kind |-> "response", name |-> "", status |-> response.status,
          value |-> response.body]
    ELSE [kind |-> "rejected", name |-> "StatusError", status |-> response.status,
          value |-> IF "error" \in DOMAIN response.body
                    THEN response.body.error
                    ELSE Decoded(response.body)]

\* transformResponse: return response.json() hands the pending value on, so a
\* body that is not JSON rejects it and neither catch applies
transformResponse(response) ==
    IF IsJSON(response.body)
    THEN [kind |-> "resolved", name |-> "", status |-> response.status,
          value |-> Decoded(response.body)]
    ELSE [kind |-> "rejected", name |-> "SyntaxError", status |-> 0,
          value |-> EmptyBody]

\* stubFetch: obj.fetch(request).then(catchErrors), then transformResponse when
\* options.parse; the outcome the caller of the proxy observes
stubFetch(fr, parse) ==
    IF fr.escaped
    THEN [kind |-> "rejected", name |-> "Error", status |-> 0, value |-> EmptyBody]
    ELSE IF catchErrors(fr.response).kind = "rejected" \/ ~parse
    THEN catchErrors(fr.response)
    ELSE transformResponse(fr.response)

\* ------------------------------------------------------------ actions

\* nothing answered; uncaught says that the closure of the last safeAlarm ended
\* with an error that nothing caught
NoRequest ==
    [action |-> "", target |-> "", content |-> [t |-> "absent"],
     response |-> NoResponse, escaped |-> FALSE, persists |-> 0,
     uncaught |-> FALSE]

\* how the closure safeAlarm hands to storage.transaction ended: its error
\* rejects the pending value of the transaction, which safeAlarm neither
\* waits for nor catches
AlarmOutcome(failed) == [NoRequest EXCEPT !.uncaught = failed]

Faults == {"none", "list", "onLoad", "put"}

Fallbacks == {"absent", "returns", "throws", "rejects"}

CallInputs ==
    {<<"increment", Args(0)>>, <<"persist", Args(0)>>, <<"reset", Args(0)>>,
     <<"destroy", Args(0)>>, <<"destroy", Args(1)>>, <<"toJSON", Args(0)>>,
     <<"missing", Args(0)>>, <<"count", Args(0)>>}

SetInputs ==
    {<<"count", Num(1)>>, <<"state", Num(1)>>}

GetTargets == {"count", "missing", "fetch"}

Init ==
    /\ autoPersist \in BOOLEAN
    /\ autoReturn \in BOOLEAN
    /\ this = Construct
    /\ storage = EmptyObj
    /\ inflight = {}
    /\ txn = [open |-> FALSE, writes |-> EmptyObj]
    /\ alarm = "idle"
    /\ last = NoRequest

\* the bound on count: a number up to MaxCount, or not there
CountBounded(t) ==
    "count" \in DOMAIN t => t["count"].t = "number" /\ t["count"].n <= MaxCount

\* whether a fault can show in this request: a load fault needs a load, a
\* put fault needs a persist
FaultApplies(req, fault) ==
    CASE fault \in {"list", "onLoad"} ->
            IsObject(this["state"]) /\ NotInitialized(this)
      [] fault = "put" -> autoPersist \/ req.target = "persist"
      [] OTHER -> TRUE

\* the platform hands a request to fetch, and fetch answers it
Deliver(req, fault, fallback) ==
    /\ Cardinality(inflight) <= MaxInflight
    /\ alarm = "idle"
    /\ FaultApplies(req, fault)
    /\ \E fr \in {fetch(Machine, req, fault, fallback)} :
        /\ CountBounded(fr.m.this)
        /\ this' = fr.m.this
        /\ storage' = fr.m.storage
        /\ inflight' = fr.m.inflight
        /\ txn' = fr.m.txn
        /\ last' = [action |-> req.action, target |-> req.target,
                    content |-> req.content, response |-> fr.response,
                    escaped |-> fr.escaped, persists |-> fr.persists,
                    uncaught |-> FALSE]
    /\ UNCHANGED <<autoPersist, autoReturn, alarm>>

\* proxy.prop(...args): the get trap's callable, invoked
ProxyCall ==
    \E input \in CallInputs, fault \in Faults :
        /\ \E mock \in BOOLEAN : isValidMethod(input[1], mock)
        /\ Deliver(buildRequest("call", input[1], input[2]), fault, "absent")

\* proxy.prop read as a data field
ProxyGet ==
    \E prop \in GetTargets, fault \in Faults :
        /\ \E mock \in BOOLEAN : ~isValidMethod(prop, mock)
        /\ Deliver(buildRequest("get-prop", prop, Undefined), fault, "absent")

\* proxy.prop = value
ProxySet ==
    \E input \in SetInputs, fault \in Faults :
        Deliver(buildRequest("set", input[1], input[2]), fault, "absent")

\* a request that reaches fetch without the proxy: a get-prop with no
\* do-content header, or a request no route matches
RawFetch ==
    \/ \E fault \in Faults :
          Deliver([route |-> "do", action |-> "get-prop", target |-> "count",
                   content |-> [t |-> "absent"]], fault, "absent")
    \/ \E fault \in Faults, fallback \in Fallbacks :
          Deliver([route |-> "other", action |-> "", target |-> "",
                   content |-> [t |-> "absent"]], fault, fallback)

\* safeAlarm(cb), up to the first wait of the transaction's closure: the call
\* is caught when this.state.storage has no transaction method (the namespace
\* is gone, or the reference is a transaction view); otherwise the closure
\* swaps the store reference and begins to load. safeAlarm does not wait for
\* the transaction: the rest of the closure runs in the two actions below.
safeAlarm ==
    /\ alarm = "idle"
    /\ IF IsObject(this["state"]) /\ StateGet(this, "storage") = StorageRef
       THEN /\ this' = StateSet(this, "storage", TxnRef)
            /\ txn' = [open |-> TRUE, writes |-> EmptyObj]
            /\ alarm' = "load"
       ELSE UNCHANGED <<this, txn, alarm>>
    /\ last' = NoRequest
    /\ UNCHANGED <<autoPersist, autoReturn, storage, inflight>>

\* the closure's await this.loadFromStorage(); an error ends the closure and
\* the transaction is rolled back
AlarmLoad ==
    /\ alarm = "load"
    /\ \E fault \in {"none", "list"} :
        \E ld \in {loadFromStorage(Machine, fault)} :
            /\ fault # "none" => NotInitialized(this)
            /\ this' = ld.m.this
            /\ IF ld.threw
               THEN alarm' = "idle" /\ txn' = [open |-> FALSE, writes |-> EmptyObj]
               ELSE alarm' = "cb" /\ txn' = txn
            /\ last' = AlarmOutcome(ld.threw)
    /\ UNCHANGED <<autoPersist, autoReturn, storage, inflight>>

\* the closure's await cb() and, with autoPersist, await this.persist(); the
\* transaction then commits its writes, or is rolled back after an error.
\* cb is the callback safeAlarm was given: none, the subclass's increment,
\* or one that throws
AlarmCallback ==
    /\ alarm = "cb"
    /\ \E cb \in {"none", "increment", "throws"} :
        LET t1 == IF cb = "increment" THEN increment(this) ELSE this
            ps == IF autoPersist
                  THEN persist([Machine EXCEPT !.this = t1], "none")
                  ELSE [m |-> [Machine EXCEPT !.this = t1], threw |-> FALSE]
        IN /\ CountBounded(t1)
           /\ this' = IF cb = "throws" THEN this ELSE t1
           /\ inflight' = IF cb = "throws" THEN inflight ELSE ps.m.inflight
           /\ storage' = IF cb = "throws" \/ ps.threw \/ ~txn.open
                         THEN storage
                         ELSE Assign(storage, ps.m.txn.writes)
           /\ last' = AlarmOutcome(cb = "throws" \/ ps.threw)
    /\ txn' = [open |-> FALSE, writes |-> EmptyObj]
    /\ alarm' = "idle"
    /\ UNCHANGED <<autoPersist, autoReturn>>

\* a put() issued earlier is applied to the store
StoreApply ==
    \E w \in inflight :
        /\ storage' = Assign(storage, [k \in {w.key} |-> w.value])
        /\ inflight' = inflight \ {w}
        /\ UNCHANGED <<autoPersist, autoReturn, this, txn, alarm,
                       last>>

\* the platform drops the in-memory instance and constructs a new one
Evict ==
    /\ alarm = "idle"
    /\ this' = Construct
    /\ last' = NoRequest
    /\ UNCHANGED <<autoPersist, autoReturn, storage, inflight, txn,
                   alarm>>

Next ==
    \/ ProxyCall
    \/ ProxyGet
    \/ ProxySet
    \/ RawFetch
    \/ safeAlarm
    \/ AlarmLoad
    \/ AlarmCallback
    \/ StoreApply
    \/ Evict

Spec == Init /\ [][Next]_vars

\* ------------------------------------------------------------ properties

\* the persistable fields a freshly constructed instance over a store holds
\* after its first load
FreshLoadOf(store) ==
    getPersistable(loadFromStorage([this |-> Construct, storage |-> store,
                                    inflight |-> {},
                                    txn |-> [open |-> FALSE, writes |-> EmptyObj]],
                                   "none").m.this)

\* the same over the store as it is now
FreshLoad == FreshLoadOf(storage)

\* the fields of an object whose names do not begin with '$'
Durable(o) == Restrict(o, {k \in DOMAIN o : ~StartsWithDollar(k)})

\* the construction-time persistable fields
Defaults == getPersistable(Construct)

\* the requests that are a set, a get-prop, or a call of a method that invokes
\* neither persist nor destroy
QuietRequests ==
    {buildRequest("set", i[1], i[2]) : i \in SetInputs} \cup
    {buildRequest("get-prop", prop, Undefined) : prop \in GetTargets} \cup
    {[route |-> "do", action |-> "get-prop", target |-> "count",
      content |-> [t |-> "absent"]]} \cup
    {buildRequest("call", i[1], i[2]) :
        i \in {c \in CallInputs : c[1] \notin {"persist", "destroy"}}}

\* the calls whose target names no function on the instance
UndefinedCalls == {c \in CallInputs : c[1] \notin Methods}

MethodNotFound(target) ==
    onError(500, Message("Durable Object does not contain method", target))

\* C1 (as claimed): once a request that ran persist() has been answered, a
\* freshly constructed instance that performs its first load holds exactly the
\* persistable fields of the persisting instance, with equal values
C1_PersistReloadRoundTrip ==
    (last.persists > 0 /\ passes(last.response)) =>
        Durable(FreshLoad) = Durable(getPersistable(this))

\* C2 (as claimed): after a call of reset() the persistable fields equal the
\* construction-time fields, whatever came before, an alarm included
C2_ResetRestoresDefaults ==
    (last.action = "call" /\ last.target = "reset" /\ last.response.status # 400) =>
        getPersistable(this) = Defaults

\* C3 (as claimed): after a request that invoked destroy() has been answered
\* the store is empty and a first load on a fresh instance assigns nothing
C3_DestroyLeavesNoKeys ==
    (last.action = "call" /\ last.target = "destroy" /\ passes(last.response)) =>
        storage = EmptyObj /\ FreshLoad = Defaults

\* C4 (as claimed): with autoPersist, when a set has been answered the store
\* holds the new value and a fresh instance that loads sees it
C4_SetIsDurableWhenAnswered ==
    (autoPersist /\ last.action = "set" /\ passes(last.response)) =>
        /\ Key(last.target) \in DOMAIN storage
        /\ superjsonParse(storage[Key(last.target)]) = JSONparse(last.content)
        /\ FreshLoad[last.target] = JSONparse(last.content)

\* C5: without autoPersist, a set, a get-prop, or a call of a method that
\* invokes neither persist nor destroy leaves the store as it was: a step that
\* changes the store or puts a write in flight is never the handling of such a
\* request. What a fresh instance loads is a function of the store alone
\* (FreshLoadOf), so it loads what it would have loaded before
C5_NoAutoPersistLeavesStore ==
    [][(/\ ~autoPersist
        /\ storage' # storage \/ inflight' # inflight)
       => ~ \E req \in QuietRequests, fault \in Faults :
              /\ last'.action = req.action /\ last'.target = req.target
              /\ Deliver(req, fault, "absent")]_vars

\* C5 witness: without autoPersist a set of count was answered, the instance
\* holds the new value and a fresh instance would still load the old one
C5_Witness ==
    /\ ~autoPersist
    /\ last.action = "set" /\ last.target = "count" /\ passes(last.response)
    /\ this["count"] = Num(1)
    /\ FreshLoad["count"] = Num(0)

\* C6 (as claimed): a call whose target names no function is always answered
\* with the 500 error whose message contains the target name
C6_AlwaysMethodNotFound ==
    (last.action = "call" /\ last.target \notin Methods) =>
        last.response = MethodNotFound(last.target)

\* C6 (amended): a call whose target names no function always fails. No method
\* is invoked and the action stage changes no field: the instance is as the
\* load step left it; the store is untouched, and only the auto-persist of the
\* same request puts writes in flight. The response is the 500 error naming the target, unless
\* the namespace is gone or the load or the auto-persist of the same request
\* throws, and then it is the wrapper's 400 error. fetch does not reject, and
\* the proxied call rejects with a StatusError of the response's status
C6_UndefinedMethodFails ==
    [][\A input \in UndefinedCalls, fault \in Faults :
          (/\ last'.action = "call" /\ last'.target = input[1]
           /\ Deliver(buildRequest("call", input[1], input[2]), fault, "absent")) =>
            LET ld == loadFromStorage([Machine EXCEPT !.this = saveDefaultState(@)],
                                      fault)
                wrapperFails ==
                    \/ ~IsObject(this["state"])
                    \/ ld.threw
                    \/ autoPersistStep(ld.m, fault).threw
            IN /\ this' = IF IsObject(this["state"]) THEN ld.m.this ELSE this
               /\ storage' = storage
               /\ ~autoPersist => inflight' = inflight
               /\ last'.response = IF wrapperFails THEN error400
                                   ELSE MethodNotFound(input[1])
               /\ ~last'.escaped
               /\ \A parse \in BOOLEAN :
                     /\ stubFetch(last', parse).kind = "rejected"
                     /\ stubFetch(last', parse).name = "StatusError"
                     /\ stubFetch(last', parse).status = last'.response.status]_vars

\* C6 witness: a call of a member that is not there was answered with the 500
\* error naming it, and the proxied call rejected with status 500
C6_Witness ==
    /\ last.action = "call" /\ last.target = "missing"
    /\ last.response = MethodNotFound("missing")
    /\ stubFetch(last, TRUE).kind = "rejected"
    /\ stubFetch(last, TRUE).status = 500

\* C7 (as claimed): with autoReturn, a call of increment() is answered with
\* exactly the persistable fields after the call, and with no entry for the
\* environment bindings
C7_AutoReturnGivesState ==
    (autoReturn /\ last.action = "call" /\ last.target = "increment"
        /\ last.response.status = 200) =>
        JSONparseObject(last.response.body) =
            Restrict(Durable(getPersistable(this)),
                     DOMAIN Durable(getPersistable(this)) \ {"env"})

\* C8 (as claimed): after the proxy has set a field, a data-field read of it
\* through the proxy resolves to the value that was set
C8_WriteThenRead ==
    (last.action = "set" /\ last.target = "count" /\ passes(last.response)) =>
        stubFetch(fetch(Machine, buildRequest("get-prop", last.target, Undefined),
                        "none", "absent"), TRUE)
            = [kind |-> "resolved", name |-> "", status |-> 200,
               value |-> [v |-> JSONparse(last.content)]]

\* C9 (as claimed): after a destroy() with its default options has been
\* answered, the instance the name resolves to, the one in memory or a fresh
\* one, has every persistable field at its construction-time value
C9_DestroyThenDefaults ==
    (/\ last.action = "call" /\ last.target = "destroy"
     /\ last.content = HeaderText(JSONstringify(Args(0)))
     /\ passes(last.response)) =>
        getPersistable(this) = Defaults /\ FreshLoad = Defaults

\* C10 (as claimed): the pending value fetch returns never rejects
C10_FetchNeverRejects == ~last.escaped

\* C11 (as claimed): with parse requested, every response in the success range,
\* the empty 204 response included, makes the proxied call or read resolve; a
\* success response whose body is not JSON never makes it reject
C11_SuccessAlwaysResolves ==
    (~last.escaped /\ passes(last.response)) =>
        stubFetch(last, TRUE).kind = "resolved"

\* C12 (as claimed): reading fetch on a proxy handle issues no action request
\* to the actor, neither call nor get-prop
C12_FetchReadIssuesNothing ==
    (last.action \in {"call", "get-prop"}) => last.target # "fetch"

\* C13 (as claimed): once the first load has completed, initialized stays true
\* on the same in-memory instance; a set that was answered in the success
\* range ran after the load of its own request
C13_InitializedStaysTrue ==
    (last.action = "set" /\ passes(last.response)) => ~NotInitialized(this)

\* C14 (as claimed): every key written to the store, applied or in flight, is
\* <prefix><name> for a business field; no environment bindings, no member of
\* the internal namespace and no name that begins with '$'
C14_OnlyBusinessStateStored ==
    \A key \in DOMAIN storage \cup {w.key : w \in inflight} :
        /\ key.prefix = prefix
        /\ key.name \notin {"env", "state"}
        /\ ~StartsWithDollar(key.name)

\* C15 (as claimed): with autoPersist, every request that got past the load
\* step ran persist() before fetch returned; a request whose answer is not
\* the wrapper's 400 got past the load step
C15_AutoPersistOnEveryPath ==
    (autoPersist /\ (last.escaped \/ last.response \notin {NoResponse, error400})) =>
        last.persists >= 1

\* C16 (as claimed): an error during safeAlarm's reload, callback or persist is
\* caught inside safeAlarm and never left as an uncaught failure of the
\* transaction's pending result
C16_AlarmErrorsContained == ~last.uncaught

\* C17 (as claimed): once safeAlarm's sequence has ended, the instance's store
\* reference is the original store adapter again
C17_StoreReferenceRestored ==
    (alarm = "idle" /\ IsObject(this["state"])) =>
        StateGet(this, "storage") = StorageRef

\* C18 (as claimed): the reload step of safeAlarm's closure, taken in whatever
\* state the instance is in, leaves every field listed from the transaction
\* view assigned onto the instance for the callback to see
C18_AlarmReloads ==
    alarm = "load" =>
        LET ld == loadFromStorage(Machine, "none") IN
        \A key \in DOMAIN listed(Machine, TxnRef) :
            /\ truncatedKey(key) \in DOMAIN ld.m.this
            /\ ld.m.this[truncatedKey(key)] =
                   superjsonParse(listed(Machine, TxnRef)[key])

\* C19 (as claimed): whenever the default-state snapshot is set it holds the
\* construction-time persistable fields
C19_SnapshotIsConstructionState ==
    (IsObject(this["state"]) /\ StateGet(this, "defaultState") # Undefined) =>
        StateGet(this, "defaultState") = JSONstringifyObject(Defaults)

\* the calls of destroy()
DestroyCalls == {c \in CallInputs : c[1] = "destroy"}

\* C20: persist() only adds or overwrites store keys. Every step that is not
\* the handling of a request that invokes destroy(), and so every persist (an
\* explicit call, the auto-persist of a request, the persist of an alarm) and
\* every reset, keeps every key the store holds, and whenever the store has
\* changed a fresh instance's first load assigns every stored field again
C20_PersistKeepsKeys ==
    [][(~ \E input \in DestroyCalls, fault \in Faults :
            /\ last'.action = "call" /\ last'.target = "destroy"
            /\ Deliver(buildRequest("call", input[1], input[2]), fault, "absent"))
       => /\ DOMAIN storage \subseteq DOMAIN storage'
          /\ storage' # storage =>
                LET loaded == FreshLoadOf(storage')
                IN \A key \in DOMAIN storage' :
                      loaded[truncatedKey(key)] = superjsonParse(storage'[key])]_vars

\* C20 witness: a call of persist() was answered on an instance that no longer
\* holds count (a reset removed it), the store still holds the key of count,
\* and a fresh instance loads the stored value
C20_Witness ==
    /\ last.action = "call" /\ last.target = "persist" /\ passes(last.response)
    /\ last.persists >= 1
    /\ "count" \notin DOMAIN this
    /\ Key("count") \in DOMAIN storage
    /\ FreshLoad["count"] = superjsonParse(storage[Key("count")])

====
